---- MODULE Spec2Model ----
(***************************************************************************)
(* ns-check: the nameserver discovery / probing / ranking / writing loop.  *)
(*                                                                         *)
(* The repository holds two implementations of the loop:                   *)
(*   impl = "flag"   : the flag-driven program (run, collectNameservers,   *)
(*                     sortNameservers, writeResolvConf)                   *)
(*   impl = "struct" : the struct-based program (NameServerDetector.Start  *)
(*                     and NameServerManager) in ns-check/ns-check.go      *)
(* Both are modelled; impl is fixed at start-up.                           *)
(*                                                                         *)
(* Spec       : both programs with the default -options and -search        *)
(* FlagsSpec  : the same steps, started with other flags and an endpoint   *)
(*              that serves a list with an empty entry                     *)
(* SignalSpec : FlagsSpec with the delivery of a signal and the handler's  *)
(*              receive as separate steps, the handler weakly fair         *)
(*                                                                         *)
(* Time is counted in whole units; a probe's elapsed time ranges over      *)
(* 0..MaxElapsed and nsTimeout is the configured per-probe timeout.        *)
(***************************************************************************)
EXTENDS Integers, Sequences, FiniteSets, TLC

\* ---------------------------------------------------------------- bounds

\* -ns-check-timeout, in time units
nsTimeout == 1
\* the largest -max-nameservers the model configures
MaxMaxNameservers == 2
\* a failing write fails at os.Create (0) or at one of the first MaxFailAt
\* calls of WriteString
MaxFailAt == 1

\* measured elapsed times: a dial (or its measurement) may run past the timeout
MaxElapsed == nsTimeout + 1

\* candidate addresses; identity is the exact string.  The empty string is
\* what strings.Split leaves after a trailing comma of a nameserver list.
Addrs == {"8.8.8.8", "008.8.8.8", "1.1.1.1", ""}

\* endpoint URLs the remote source may redirect to
URLs == {"http://127.0.0.1:5353/nameservers", "http://host2/ns"}

\* an endpoint whose ns-master was started with -nameservers "8.8.8.8," : the
\* list it serves is strings.Split of that, "8.8.8.8" and the empty string
TrailingCommaURL == "http://host3/ns"

\* the defaults of -options and -search
defaultOptions == "timeout:1 attempts:1"
defaultSearch == "localhost"

\* -default-nameserver, as the parts between its commas
DefaultChoices == {<<"8.8.8.8">>}

VARIABLES
    impl,               \* which program runs
    maxNameservers,     \* -max-nameservers / Config.MaxNameservers
    defaultNameserver,  \* -default-nameserver / Config.DefaultNameserver
    options,            \* -options / Config.Options
    search,             \* -search / Config.Search
    file,               \* the resolv.conf document: a sequence of lines
    endpointURL,        \* the stored endpoint URL
    pc,                 \* the scheduler loop's position
    nameservers,        \* the candidate list collected in this cycle
    proc,               \* each probe goroutine's position
    pending,            \* struct: the slice a goroutine is about to store
    resultChan,         \* flag: the buffered result channel
    chanCap,            \* flag: its capacity
    wg,                 \* struct: the WaitGroup counter
    toReceive,          \* flag: iterations of the collecting loop
    results,            \* the results slice
    sortedNameservers,  \* the ranked list and its capacity
    bestNameservers,    \* struct: the selection
    src,                \* history: what the collecting step read
    dial,               \* history: what each dial of this cycle returned
    writeRes,           \* history: how the write of this cycle ended
    failedCycle,        \* history: collecting or writing failed, no sleep since
    signalChan          \* signals notified and not yet received by the handler

vars == <<impl, maxNameservers, defaultNameserver, options, search, file,
          endpointURL, pc, nameservers, proc, pending, resultChan, chanCap,
          wg, toReceive, results, sortedNameservers, bestNameservers, src,
          dial, writeRes, failedCycle, signalChan>>

\* ---------------------------------------------------------------- helpers

Range(s) == {s[i] : i \in DOMAIN s}

Min(a, b) == IF a <= b THEN a ELSE b

IsPrefix(s, t) ==
    /\ Len(s) <= Len(t)
    /\ \A i \in 1..Len(s) : s[i] = t[i]

NoDup(s) == \A i, j \in DOMAIN s : i # j => s[i] # s[j]

\* a line of the document: "<key> <arg>\n"
Line(key, arg) == [key |-> key, arg |-> arg]

\* ------------------------------------------------- the candidate set

\* a builder that canonicalises addresses before using them as keys
Canonical(ns) == IF ns = "008.8.8.8" THEN "8.8.8.8" ELSE ns
addNameserversCanonical(list, nameserverSet) ==
    nameserverSet \cup {Canonical(ns) : ns \in Range(list)}

\* addNameservers / addNameserversToSet: nameserverSet[ns] = true for each ns
addNameservers(list, nameserverSet) == nameserverSet \cup Range(list)

\* getNameservers / getNameserversFromSet: the keys of the map, in the
\* order the map iteration happens to yield them
getNameservers(nameserverSet) ==
    {s \in [1..Cardinality(nameserverSet) -> nameserverSet] :
        Range(s) = nameserverSet}

\* getDefaultNameservers: strings.Split(defaultNameserver, ",")
getDefaultNameservers(parts) == parts

\* ------------------------------------------------- the local file reader

\* strings.HasPrefix(strings.TrimSpace(line), "nameserver")
HasNameserverPrefix(line) == line.key = "nameserver"

\* strings.Fields of the argument part of a line
ArgFields(arg) == IF arg = "" THEN <<>> ELSE <<arg>>

\* strings.Fields(line)
Fields(line) == <<line.key>> \o ArgFields(line.arg)

RECURSIVE ScanLines(_)
ScanLines(lines) ==
    IF lines = <<>> THEN <<>>
    ELSE LET line == Head(lines)
             rest == ScanLines(Tail(lines))
         IN  IF HasNameserverPrefix(line) /\ Len(Fields(line)) >= 2
             THEN <<Fields(line)[2]>> \o rest
             ELSE rest

\* readNameserversFromResolvConf: openErr is os.Open or the scanner failing
readNameserversFromResolvConf(f, openErr) ==
    IF openErr THEN [nameservers |-> <<>>, err |-> TRUE]
    ELSE [nameservers |-> ScanLines(f), err |-> FALSE]

\* ------------------------------------------------- the remote reader

\* the lists a GET can bring back
RemoteLists == {<<>>, <<"1.1.1.1">>, <<"008.8.8.8", "8.8.8.8">>}

\* what one GET of url can bring back: no answer, an answer that does not
\* decode, or a list and an endpointURL field
Responses(url) ==
    {[kind |-> k, nameservers |-> <<>>, endpointURL |-> ""] :
        k \in {"unreachable", "malformed"}}
    \cup
    (IF url = TrailingCommaURL
       THEN {[kind |-> "ok", nameservers |-> <<"8.8.8.8", "">>,
              endpointURL |-> ""]}
       ELSE {[kind |-> "ok", nameservers |-> l, endpointURL |-> u] :
                l \in RemoteLists, u \in URLs \cup {""}})

\* a fetch that returns the decoded endpointURL field as it came, empty or not
fetchKeepingEmptyURL(url, stored, resp) ==
    IF resp.kind # "ok"
    THEN [target |-> url, nameservers |-> <<>>, endpointURL |-> stored,
          err |-> TRUE]
    ELSE [target |-> url, nameservers |-> resp.nameservers,
          endpointURL |-> resp.endpointURL, err |-> FALSE]

\* a fetch that forgets the stored URL when the request or the decoding fails
fetchFailureClearsURL(url, stored, resp) ==
    IF resp.kind # "ok"
    THEN [target |-> url, nameservers |-> <<>>, endpointURL |-> "",
          err |-> TRUE]
    ELSE [target |-> url, nameservers |-> resp.nameservers,
          endpointURL |-> IF resp.endpointURL = "" THEN stored
                          ELSE resp.endpointURL,
          err |-> FALSE]

\* fetchNameserversFromEndpoint of the flag program: httpClient.Get(url),
\* then the list, the URL to store (stored is the global it falls back to)
\* and the error
fetchNameserversFromEndpoint(url, stored, resp) ==
    IF resp.kind # "ok"
    THEN [target |-> url, nameservers |-> <<>>, endpointURL |-> stored,
          err |-> TRUE]
    ELSE [target |-> url, nameservers |-> resp.nameservers,
          endpointURL |-> IF resp.endpointURL = "" THEN stored
                          ELSE resp.endpointURL,
          err |-> FALSE]

\* NameServerManager.fetchNameserversFromEndpoint: the list and the error
structFetchNameserversFromEndpoint(url, resp) ==
    IF resp.kind # "ok"
    THEN [target |-> url, nameservers |-> <<>>, err |-> TRUE]
    ELSE [target |-> url, nameservers |-> resp.nameservers, err |-> FALSE]

\* ------------------------------------------------- collecting

\* collectNameservers: the candidate set and the URL stored afterwards
collectNameservers(f, openErr, url, resp, default) ==
    LET local  == readNameserversFromResolvConf(f, openErr)
        set1   == IF ~local.err /\ Len(local.nameservers) > 0
                  THEN addNameservers(local.nameservers, {})
                  ELSE {}
        remote == fetchNameserversFromEndpoint(url, url, resp)
        set2   == IF ~remote.err /\ Len(remote.nameservers) > 0
                  THEN addNameservers(remote.nameservers, set1)
                  ELSE set1
        set3   == addNameservers(getDefaultNameservers(default), set2)
    IN  [set |-> set3, endpointURL |-> remote.endpointURL,
         target |-> remote.target, err |-> FALSE]

\* NameServerManager.CollectNameServers
CollectNameServers(f, openErr, url, resp, default) ==
    LET local  == readNameserversFromResolvConf(f, openErr)
        remote == structFetchNameserversFromEndpoint(url, resp)
    IN  IF ~(~local.err /\ Len(local.nameservers) > 0)
        THEN [set |-> {}, target |-> "", err |-> TRUE]
        ELSE IF ~(~remote.err /\ Len(remote.nameservers) > 0)
        THEN [set |-> {}, target |-> remote.target, err |-> TRUE]
        ELSE LET list1 == local.nameservers
                 set1  == addNameservers(list1, {})
                 list2 == list1 \o remote.nameservers
                 set2  == addNameservers(remote.nameservers, set1)
                 list3 == list2 \o getDefaultNameservers(default)
                 set3  == addNameservers(list3, set2)
             IN  [set |-> set3, target |-> remote.target, err |-> FALSE]

\* ------------------------------------------------- probing

\* measureLatency of the flag program: the elapsed time, whatever the dial
\* returned
measureLatency(ok, elapsed) == elapsed

\* NameServerManager.measureLatency: (0, err) on a failed dial
structMeasureLatency(ok, elapsed) ==
    IF ok THEN [latency |-> elapsed, err |-> FALSE]
    ELSE [latency |-> 0, err |-> TRUE]

\* ------------------------------------------------- ranking

\* a comparison the wrong way round
LessReversed(x, y) == x.latency > y.latency

\* a comparison that also holds of equal latencies
LessOrEqual(x, y) == x.latency <= y.latency

\* the less function handed to sort.Slice
Less(x, y) == x.latency < y.latency

\* sort.Slice on a short slice (the model's have at most 3 elements) is an
\* insertion sort: each element moves left while it is less than its left
\* neighbour
RECURSIVE InsertLeft(_, _)
InsertLeft(sorted, x) ==
    IF sorted = <<>> THEN <<x>>
    ELSE LET last == sorted[Len(sorted)]
         IN  IF Less(x, last)
             THEN InsertLeft(SubSeq(sorted, 1, Len(sorted) - 1), x) \o <<last>>
             ELSE sorted \o <<x>>

RECURSIVE SortSlice(_)
SortSlice(rs) ==
    IF rs = <<>> THEN <<>>
    ELSE InsertLeft(SortSlice(SubSeq(rs, 1, Len(rs) - 1)), rs[Len(rs)])

\* the loop of sortNameservers over the sorted results: stop at the first
\* result whose latency exceeds nsTimeout
RECURSIVE TakeWithinTimeout(_)
TakeWithinTimeout(rs) ==
    IF rs = <<>> THEN <<>>
    ELSE IF Head(rs).latency > nsTimeout THEN <<>>
    ELSE <<Head(rs).nameserver>> \o TakeWithinTimeout(Tail(rs))

\* sortNameservers after the fan-in: the ranked list, made with capacity
\* len(results)
sortNameservers(rs) ==
    [list |-> TakeWithinTimeout(SortSlice(rs)), cap |-> Len(rs)]

\* SortNameServers after the join: every result's nameserver
SortNameServers(rs) ==
    [list |-> [i \in 1..Len(rs) |-> SortSlice(rs)[i].nameserver],
     cap |-> Len(rs)]

\* a selection that cuts one entry too late
GetMaxNameserversOffByOne(list, max) ==
    IF Len(list) >= max + 1 THEN SubSeq(list, 1, max + 1) ELSE list

\* NameServerManager.GetMaxNameservers
GetMaxNameservers(list, max) ==
    IF Len(list) >= max THEN SubSeq(list, 1, max) ELSE list

\* ------------------------------------------------- writing

\* the nameserver lines writeResolvConf writes: it stops at i >= maxNameservers
NameserverLines(list, max) ==
    [i \in 1..Min(Len(list), max) |-> Line("nameserver", list[i])]

\* NameServerManager.WriteResolvConf writes one line per entry it is handed
StructNameserverLines(list) ==
    [i \in 1..Len(list) |-> Line("nameserver", list[i])]

\* a writer that writes the options and the search line even when empty
OptionLinesAlways ==
    <<Line("options", options), Line("search", search)>>

\* writeResolvConf, lines 272-284: the options line and the search line, each
\* only when its string is not empty
OptionLines ==
    (IF options # "" THEN <<Line("options", options)>> ELSE <<>>)
    \o (IF search # "" THEN <<Line("search", search)>> ELSE <<>>)

\* the file after a write of doc: failAt = 0 is os.Create failing (nothing
\* is touched), failAt = k is the k-th WriteString failing (the file was
\* truncated and holds the k-1 lines before it), failAt > Len(doc) is success
WriteDocument(f, doc, failAt) ==
    IF failAt = 0 THEN [file |-> f, err |-> TRUE, res |-> "create"]
    ELSE IF failAt <= Len(doc)
    THEN [file |-> SubSeq(doc, 1, failAt - 1), err |-> TRUE, res |-> "partial"]
    ELSE [file |-> doc, err |-> FALSE, res |-> "ok"]

writeResolvConf(f, list, max, failAt) ==
    WriteDocument(f, NameserverLines(list, max) \o OptionLines, failAt)

WriteResolvConf(f, list, failAt) ==
    WriteDocument(f, StructNameserverLines(list) \o OptionLines, failAt)

\* the nameserver addresses a document holds, as written
WrittenNameservers(f) ==
    LET ns == SelectSeq(f, LAMBDA l : l.key = "nameserver")
    IN  [i \in 1..Len(ns) |-> ns[i].arg]

\* ------------------------------------------------- the state machine

NoSrc == [valid |-> FALSE, openErr |-> FALSE, local |-> <<>>,
          resp |-> [kind |-> "none", nameservers |-> <<>>, endpointURL |-> ""],
          url |-> "", err |-> FALSE]

NoDial == [st |-> "none", ok |-> FALSE, elapsed |-> 0]

NoRanking == [list |-> <<>>, cap |-> 0]

\* what the local file holds when the program starts
InitFiles ==
    { <<>>,
      <<Line("nameserver", "008.8.8.8")>>,
      <<Line("nameserver", "1.1.1.1"), Line("nameserver", "1.1.1.1"),
        Line("search", "example.org")>> }

\* the state of one loop iteration before it has done anything
FreshCycle ==
    /\ nameservers' = <<>>
    /\ proc' = [a \in Addrs |-> "none"]
    /\ pending' = [a \in Addrs |-> <<>>]
    /\ resultChan' = <<>>
    /\ chanCap' = 0
    /\ wg' = 0
    /\ toReceive' = 0
    /\ results' = <<>>
    /\ sortedNameservers' = NoRanking
    /\ bestNameservers' = <<>>
    /\ dial' = [a \in Addrs |-> NoDial]
    /\ writeRes' = "none"

Init ==
    /\ impl \in {"flag", "struct"}
    /\ maxNameservers \in 1..MaxMaxNameservers
    /\ defaultNameserver \in DefaultChoices
    /\ options = defaultOptions
    /\ search = defaultSearch
    /\ file \in InitFiles
    /\ endpointURL = "http://127.0.0.1:5353/nameservers"
    /\ signalChan = 0
    /\ pc = "collect"
    /\ nameservers = <<>>
    /\ proc = [a \in Addrs |-> "none"]
    /\ pending = [a \in Addrs |-> <<>>]
    /\ resultChan = <<>>
    /\ chanCap = 0
    /\ wg = 0
    /\ toReceive = 0
    /\ results = <<>>
    /\ sortedNameservers = NoRanking
    /\ bestNameservers = <<>>
    /\ src = NoSrc
    /\ dial = [a \in Addrs |-> NoDial]
    /\ writeRes = "none"
    /\ failedCycle = FALSE

Config == <<impl, maxNameservers, defaultNameserver, options, search>>

\* run, lines 86-91: collectNameservers never returns an error
Collect ==
    /\ impl = "flag"
    /\ pc = "collect"
    /\ \E openErr \in BOOLEAN, resp \in Responses(endpointURL) :
         LET c == collectNameservers(file, openErr, endpointURL, resp,
                                     defaultNameserver)
         IN  /\ \E order \in getNameservers(c.set) : nameservers' = order
             /\ endpointURL' = c.endpointURL
             /\ src' = [valid |-> TRUE, openErr |-> openErr,
                        local |-> readNameserversFromResolvConf(file, openErr).nameservers,
                        resp |-> resp, url |-> c.target, err |-> c.err]
             /\ failedCycle' = (failedCycle \/ c.err)
             /\ pc' = IF c.err THEN "collect" ELSE "spawn"
    /\ UNCHANGED <<Config, signalChan, file, proc, pending, resultChan, chanCap, wg,
                   toReceive, results, sortedNameservers, bestNameservers,
                   dial, writeRes>>

\* Start, lines 90-94: on an error the loop logs and continues at once
StructCollect ==
    /\ impl = "struct"
    /\ pc = "collect"
    /\ \E openErr \in BOOLEAN, resp \in Responses(endpointURL) :
         LET c == CollectNameServers(file, openErr, endpointURL, resp,
                                     defaultNameserver)
         IN  /\ \E order \in getNameservers(c.set) : nameservers' = order
             /\ src' = [valid |-> TRUE, openErr |-> openErr,
                        local |-> readNameserversFromResolvConf(file, openErr).nameservers,
                        resp |-> resp, url |-> c.target, err |-> c.err]
             /\ failedCycle' = (failedCycle \/ c.err)
             /\ pc' = IF c.err THEN "collect" ELSE "spawn"
    /\ UNCHANGED <<Config, signalChan, file, endpointURL, proc, pending, resultChan,
                   chanCap, wg, toReceive, results, sortedNameservers,
                   bestNameservers, dial, writeRes>>

\* a fan-out whose channel holds one result fewer than there are candidates
SpawnSmallChannel ==
    /\ impl = "flag"
    /\ pc = "spawn"
    /\ chanCap' = Len(nameservers) - 1
    /\ toReceive' = Len(nameservers)
    /\ proc' = [a \in Addrs |->
                  IF a \in Range(nameservers) THEN "running" ELSE "none"]
    /\ pc' = IF Len(nameservers) = 0 THEN "rank" ELSE "recv"
    /\ nameservers' = <<>>
    /\ src' = NoSrc
    /\ UNCHANGED <<Config, signalChan, file, endpointURL, pending, resultChan, wg,
                   results, sortedNameservers, bestNameservers, dial,
                   writeRes, failedCycle>>

\* sortNameservers, lines 210-219: the channel and one goroutine per candidate
Spawn ==
    /\ impl = "flag"
    /\ pc = "spawn"
    /\ chanCap' = Len(nameservers)
    /\ toReceive' = Len(nameservers)
    /\ proc' = [a \in Addrs |->
                  IF a \in Range(nameservers) THEN "running" ELSE "none"]
    /\ pc' = IF Len(nameservers) = 0 THEN "rank" ELSE "recv"
    /\ nameservers' = <<>>
    /\ src' = NoSrc
    /\ UNCHANGED <<Config, signalChan, file, endpointURL, pending, resultChan, wg,
                   results, sortedNameservers, bestNameservers, dial,
                   writeRes, failedCycle>>

\* SortNameServers, lines 227-237: wg.Add(1) and one goroutine per candidate
StructSpawn ==
    /\ impl = "struct"
    /\ pc = "spawn"
    /\ wg' = Len(nameservers)
    /\ proc' = [a \in Addrs |->
                  IF a \in Range(nameservers) THEN "running" ELSE "none"]
    /\ pc' = "wait"
    /\ nameservers' = <<>>
    /\ src' = NoSrc
    /\ UNCHANGED <<Config, signalChan, file, endpointURL, pending, resultChan, chanCap,
                   toReceive, results, sortedNameservers, bestNameservers,
                   dial, writeRes, failedCycle>>

\* the goroutine of sortNameservers, lines 215-218: dial, then send
Probe(a) ==
    /\ impl = "flag"
    /\ proc[a] = "running"
    /\ Len(resultChan) < chanCap
    /\ \E ok \in BOOLEAN, elapsed \in 0..MaxElapsed :
         /\ resultChan' = Append(resultChan,
                [nameserver |-> a, latency |-> measureLatency(ok, elapsed)])
         /\ dial' = [dial EXCEPT ![a] =
                [st |-> "done", ok |-> ok,
                 elapsed |-> IF ok THEN elapsed ELSE 0]]
    /\ proc' = [proc EXCEPT ![a] = "done"]
    /\ UNCHANGED <<Config, signalChan, file, endpointURL, pc, nameservers, pending,
                   chanCap, wg, toReceive, results, sortedNameservers,
                   bestNameservers, src, writeRes, failedCycle>>

\* sortNameservers, lines 221-224: one receive of the collecting loop
Receive ==
    /\ impl = "flag"
    /\ pc = "recv"
    /\ resultChan # <<>>
    /\ results' = Append(results, Head(resultChan))
    /\ resultChan' = Tail(resultChan)
    /\ pc' = IF Len(results) + 1 = toReceive THEN "rank" ELSE "recv"
    /\ UNCHANGED <<Config, signalChan, file, endpointURL, nameservers, proc, pending,
                   chanCap, wg, toReceive, sortedNameservers,
                   bestNameservers, src, dial, writeRes, failedCycle>>

\* the goroutine of SortNameServers, lines 233-235: dial, build the result and
\* read the shared slice it is about to append to (no lock is held)
StructProbe(a) ==
    /\ impl = "struct"
    /\ proc[a] = "running"
    /\ \E ok \in BOOLEAN, elapsed \in 0..MaxElapsed :
         LET m == structMeasureLatency(ok, elapsed)
         IN  /\ pending' = [pending EXCEPT ![a] = Append(results,
                    [err |-> m.err, nameserver |-> a, latency |-> m.latency])]
             /\ dial' = [dial EXCEPT ![a] =
                    [st |-> "done", ok |-> ok,
                 elapsed |-> IF ok THEN elapsed ELSE 0]]
    /\ proc' = [proc EXCEPT ![a] = "loaded"]
    /\ UNCHANGED <<Config, signalChan, file, endpointURL, pc, nameservers, resultChan,
                   chanCap, wg, toReceive, results, sortedNameservers,
                   bestNameservers, src, writeRes, failedCycle>>

\* the same goroutine, lines 235 and 232: store the appended slice, wg.Done()
StructStore(a) ==
    /\ impl = "struct"
    /\ proc[a] = "loaded"
    /\ results' = pending[a]
    /\ pending' = [pending EXCEPT ![a] = <<>>]
    /\ wg' = wg - 1
    /\ proc' = [proc EXCEPT ![a] = "done"]
    /\ UNCHANGED <<Config, signalChan, file, endpointURL, pc, nameservers, resultChan,
                   chanCap, toReceive, sortedNameservers, bestNameservers,
                   src, dial, writeRes, failedCycle>>

\* a wait that returns while one goroutine is still counted
WaitDoneEarly == wg <= 1

\* wg.Wait() returns when the counter is zero
WaitDone == wg = 0

\* SortNameServers, line 240
StructWait ==
    /\ impl = "struct"
    /\ pc = "wait"
    /\ WaitDone
    /\ pc' = "rank"
    /\ UNCHANGED <<Config, signalChan, file, endpointURL, nameservers, proc, pending,
                   resultChan, chanCap, wg, toReceive, results,
                   sortedNameservers, bestNameservers, src, dial, writeRes,
                   failedCycle>>

\* sortNameservers, lines 226-239
Rank ==
    /\ impl = "flag"
    /\ pc = "rank"
    /\ results' = SortSlice(results)
    /\ sortedNameservers' = sortNameservers(results)
    /\ pc' = "write"
    /\ UNCHANGED <<Config, signalChan, file, endpointURL, nameservers, proc, pending,
                   resultChan, chanCap, wg, toReceive, bestNameservers, src,
                   dial, writeRes, failedCycle>>

\* SortNameServers, lines 242-253, and Start, line 98
StructRank ==
    /\ impl = "struct"
    /\ pc = "rank"
    /\ results' = SortSlice(results)
    /\ sortedNameservers' = SortNameServers(results)
    /\ bestNameservers' =
         GetMaxNameservers(SortNameServers(results).list, maxNameservers)
    /\ pc' = "write"
    /\ UNCHANGED <<Config, signalChan, file, endpointURL, nameservers, proc, pending,
                   resultChan, chanCap, wg, toReceive, src, dial, writeRes,
                   failedCycle>>

\* where a write may fail: at os.Create, at one of the first MaxFailAt calls
\* of WriteString, or (past the last line of any document) nowhere
FailPoints == 0..MaxFailAt \cup {maxNameservers + Len(OptionLines) + 1}

\* run, lines 97-100
Write ==
    /\ impl = "flag"
    /\ pc = "write"
    /\ \E failAt \in FailPoints :
         LET w == writeResolvConf(file, sortedNameservers.list,
                                  maxNameservers, failAt)
         IN  /\ file' = w.file
             /\ writeRes' = w.res
             /\ failedCycle' = (failedCycle \/ w.err)
    /\ pc' = "log"
    /\ UNCHANGED <<Config, signalChan, endpointURL, nameservers, proc, pending,
                   resultChan, chanCap, wg, toReceive, results,
                   sortedNameservers, bestNameservers, src, dial>>

\* Start, lines 101-104
StructWrite ==
    /\ impl = "struct"
    /\ pc = "write"
    /\ \E failAt \in FailPoints :
         LET w == WriteResolvConf(file, bestNameservers, failAt)
         IN  /\ file' = w.file
             /\ writeRes' = w.res
             /\ failedCycle' = (failedCycle \/ w.err)
    /\ pc' = "log"
    /\ UNCHANGED <<Config, signalChan, endpointURL, nameservers, proc, pending,
                   resultChan, chanCap, wg, toReceive, results,
                   sortedNameservers, bestNameservers, src, dial>>

\* sortedNameservers[:maxNameservers] panics when maxNameservers exceeds the
\* capacity of the slice
SliceInRange(ranking, max) == max <= ranking.cap

\* run, line 102
Log ==
    /\ impl = "flag"
    /\ pc = "log"
    /\ pc' = IF SliceInRange(sortedNameservers, maxNameservers)
             THEN "sleep" ELSE "panic"
    /\ UNCHANGED <<Config, signalChan, file, endpointURL, nameservers, proc, pending,
                   resultChan, chanCap, wg, toReceive, results,
                   sortedNameservers, bestNameservers, src, dial, writeRes,
                   failedCycle>>

\* Start, lines 106-107
StructLog ==
    /\ impl = "struct"
    /\ pc = "log"
    /\ pc' = "sleep"
    /\ UNCHANGED <<Config, signalChan, file, endpointURL, nameservers, proc, pending,
                   resultChan, chanCap, wg, toReceive, results,
                   sortedNameservers, bestNameservers, src, dial, writeRes,
                   failedCycle>>

\* time.Sleep(interval) returns and the next iteration starts
Sleep ==
    /\ pc = "sleep"
    /\ pc' = "collect"
    /\ failedCycle' = FALSE
    /\ src' = NoSrc
    /\ FreshCycle
    /\ UNCHANGED <<Config, signalChan, file, endpointURL>>

\* the signal goroutine: os.Exit(0) on SIGINT or SIGTERM, wherever the loop is
Signal ==
    /\ pc \notin {"exit", "panic"}
    /\ pc' = "exit"
    /\ failedCycle' = FALSE
    /\ src' = NoSrc
    /\ FreshCycle
    /\ UNCHANGED <<Config, signalChan, file, endpointURL>>

\* one step of the loop or of one of its probe goroutines
Cycle ==
    \/ Collect
    \/ StructCollect
    \/ Spawn
    \/ StructSpawn
    \/ \E a \in Addrs : Probe(a)
    \/ Receive
    \/ \E a \in Addrs : StructProbe(a)
    \/ \E a \in Addrs : StructStore(a)
    \/ StructWait
    \/ Rank
    \/ StructRank
    \/ Write
    \/ StructWrite
    \/ Log
    \/ StructLog
    \/ Sleep

Next ==
    \/ Cycle
    \/ Signal

Spec == Init /\ [][Next]_vars

\* ------------------------------------------------- other command lines

\* the program started with -endpoint-url pointing at the endpoint that serves
\* a list with a trailing comma, with -options and -search given empty or
\* left at their defaults, and a resolv.conf that holds a nameserver and a
\* search line
FlagsInit ==
    /\ impl \in {"flag", "struct"}
    /\ maxNameservers \in 1..MaxMaxNameservers
    /\ defaultNameserver \in DefaultChoices
    /\ options \in {"", defaultOptions}
    /\ search \in {"", defaultSearch}
    /\ file = <<Line("nameserver", "8.8.8.8"), Line("search", "example.org")>>
    /\ endpointURL = TrailingCommaURL
    /\ signalChan = 0
    /\ pc = "collect"
    /\ nameservers = <<>>
    /\ proc = [a \in Addrs |-> "none"]
    /\ pending = [a \in Addrs |-> <<>>]
    /\ resultChan = <<>>
    /\ chanCap = 0
    /\ wg = 0
    /\ toReceive = 0
    /\ results = <<>>
    /\ sortedNameservers = NoRanking
    /\ bestNameservers = <<>>
    /\ src = NoSrc
    /\ dial = [a \in Addrs |-> NoDial]
    /\ writeRes = "none"
    /\ failedCycle = FALSE

FlagsSpec == FlagsInit /\ [][Next]_vars

\* ------------------------------------------------- signal delivery

\* signal.Notify: the runtime puts SIGINT or SIGTERM into signalChan, which
\* holds one signal; a signal that finds the channel full is dropped
SignalNotify ==
    /\ pc \notin {"exit", "panic"}
    /\ signalChan = 0
    /\ signalChan' = 1
    /\ UNCHANGED <<Config, file, endpointURL, pc, nameservers, proc, pending,
                   resultChan, chanCap, wg, toReceive, results,
                   sortedNameservers, bestNameservers, src, dial, writeRes,
                   failedCycle>>

\* a handler that takes the signal only while the loop sleeps
SignalExitWhenIdle ==
    /\ pc = "sleep"
    /\ signalChan = 1
    /\ signalChan' = 0
    /\ pc' = "exit"
    /\ failedCycle' = FALSE
    /\ src' = NoSrc
    /\ FreshCycle
    /\ UNCHANGED <<Config, file, endpointURL>>

\* the handler goroutine: <-signalChan, then os.Exit(0), wherever the loop
\* and the probes are
SignalExit ==
    /\ pc \notin {"exit", "panic"}
    /\ signalChan = 1
    /\ signalChan' = 0
    /\ pc' = "exit"
    /\ failedCycle' = FALSE
    /\ src' = NoSrc
    /\ FreshCycle
    /\ UNCHANGED <<Config, file, endpointURL>>

\* the program with the delivery of a signal and the handler's receive as
\* two steps, between which the loop and the probes run on
SignalNext ==
    \/ Cycle
    \/ SignalNotify
    \/ SignalExit

\* the handler goroutine blocks on nothing but signalChan, and the runtime
\* schedules a runnable goroutine: weak fairness of its step
SignalSpec == FlagsInit /\ [][SignalNext]_vars /\ WF_vars(SignalExit)

\* ------------------------------------------------- properties

\* the candidates whose dial returned an error in this cycle
FailedCandidates == {a \in Addrs : dial[a].st = "done" /\ ~dial[a].ok}

\* this cycle's write got past os.Create, so the file holds what it wrote
WroteThisCycle ==
    pc \in {"log", "sleep", "panic"} /\ writeRes \in {"ok", "partial"}

\* C1: in the flag program, no candidate whose dial returned an error in a
\* cycle has a nameserver line in the document written in that cycle.
FlagFailedNeverWritten ==
    (impl = "flag" /\ WroteThisCycle)
        => Range(WrittenNameservers(file)) \cap FailedCandidates = {}

\* C2: in the struct program, a candidate whose probe returned an error is
\* not in the ranked list and is never written as a nameserver line.
StructFailedNeverWritten ==
    /\ (impl = "struct" /\ pc \in {"write", "log", "sleep"})
           => Range(sortedNameservers.list) \cap FailedCandidates = {}
    /\ (impl = "struct" /\ WroteThisCycle)
           => Range(WrittenNameservers(file)) \cap FailedCandidates = {}

\* the probe goroutines that have not yet reported their result
InFlight == {a \in Addrs : proc[a] \in {"running", "loaded"}}

\* C3: ranking and writing start only after every probe spawned in the cycle
\* has reported: while the loop ranks, writes or logs, no probe is in flight.
JoinBeforeRanking ==
    pc \in {"rank", "write", "log", "sleep", "panic"} => InFlight = {}

JoinBeforeRankingWitness ==
    /\ pc = "write"
    /\ Cardinality({a \in Addrs : proc[a] = "done"}) = 3

\* the union of the sources that succeeded and the static fallback
SourceUnion ==
    (IF src.openErr THEN {} ELSE Range(src.local))
    \cup (IF src.resp.kind = "ok" THEN Range(src.resp.nameservers) ELSE {})
    \cup Range(defaultNameserver)

\* the local file or the remote endpoint failed or yielded nothing
SourceFailed ==
    \/ src.openErr
    \/ src.local = <<>>
    \/ src.resp.kind # "ok"
    \/ src.resp.nameservers = <<>>

\* C4: when the local file and/or the remote endpoint fail, collecting
\* returns no error, the candidates are the union of the sources that
\* succeeded and the fallback list, and the cycle goes on to probing.
CollectSurvivesSourceFailure ==
    (src.valid /\ SourceFailed) =>
        /\ ~src.err
        /\ pc = "spawn"
        /\ nameservers # <<>>
        /\ Range(nameservers) = SourceUnion

\* C5: after a failed collecting or writing step the loop sleeps before it
\* collects again, and the process is not aborted.
FailedCycleSleeps == failedCycle => pc \in {"log", "sleep"}

\* C6: nothing that happens inside a cycle terminates the process.
CycleNeverAborts == pc # "panic"

\* C7: in the flag program a collecting step fetches from the stored URL and
\* then stores the decoded endpointURL field if it is non-empty and keeps the
\* stored URL otherwise; no other step changes the stored URL.  So the fetch
\* of the next cycle targets the last non-empty endpointURL received.
EndpointRedirection ==
    [][impl = "flag" =>
        IF pc = "collect" /\ pc' = "spawn"
        THEN /\ src'.url = endpointURL
             /\ endpointURL' =
                  IF src'.resp.kind = "ok" /\ src'.resp.endpointURL # ""
                  THEN src'.resp.endpointURL
                  ELSE endpointURL
        ELSE endpointURL' = endpointURL]_vars

EndpointRedirectionWitness ==
    /\ impl = "flag"
    /\ src.valid
    /\ src.url = "http://host2/ns"
    /\ src.resp.kind = "ok"
    /\ src.resp.endpointURL = ""
    /\ endpointURL = "http://host2/ns"

\* C8: the nameserver lines written in a cycle are a prefix of the cycle's
\* ranked list, at most maxNameservers long; a write that succeeds writes the
\* first min(maxNameservers, length) entries.
SelectionIsPrefix ==
    WroteThisCycle =>
        LET w == WrittenNameservers(file)
        IN  /\ IsPrefix(w, sortedNameservers.list)
            /\ Len(w) <= maxNameservers
            /\ writeRes = "ok" =>
                 Len(w) = Min(maxNameservers, Len(sortedNameservers.list))

SelectionIsPrefixWitness ==
    /\ WroteThisCycle
    /\ writeRes = "ok"
    /\ Len(sortedNameservers.list) > maxNameservers
    /\ Len(WrittenNameservers(file)) = maxNameservers

\* C9: the ranked list is in non-decreasing order of the recorded latency,
\* which for a successful connect is its elapsed time.
RankedByLatency ==
    pc \in {"write", "log", "sleep", "panic"} =>
        LET l == sortedNameservers.list
        IN  /\ Len(l) <= Len(results)
            /\ \A i \in 1..Len(l) :
                 /\ results[i].nameserver = l[i]
                 /\ dial[l[i]].ok => results[i].latency = dial[l[i]].elapsed
            /\ \A i, j \in 1..Len(l) :
                 i < j => results[i].latency <= results[j].latency

RankedByLatencyWitness ==
    /\ pc = "write"
    /\ Len(sortedNameservers.list) = 3
    /\ results[1].latency < results[2].latency
    /\ results[2].latency = results[3].latency

\* C10: the candidate list handed to the prober holds no string twice, is no
\* longer than the inputs together, and holds exactly the strings of the
\* inputs (no normalisation).
CandidatesUnique ==
    (src.valid /\ ~src.err) =>
        /\ NoDup(nameservers)
        /\ Len(nameservers) <= Len(src.local) + Len(src.resp.nameservers)
                                 + Len(defaultNameserver)
        /\ Range(nameservers) = SourceUnion

CandidatesUniqueWitness ==
    /\ src.valid
    /\ ~src.err
    /\ Len(src.local) = 2
    /\ src.local[1] = src.local[2]
    /\ {"8.8.8.8", "008.8.8.8"} \subseteq Range(nameservers)
    /\ Len(nameservers) = 3

\* the selection of the flag program: the first maxNameservers entries of the
\* ranked list, or all of it when it is shorter
FlagSelection ==
    SubSeq(sortedNameservers.list, 1,
           Min(maxNameservers, Len(sortedNameservers.list)))

\* C11: in the flag program, reading back the document that a successful
\* write has just produced yields the selected addresses, all of them, in
\* the order of the selection, whatever -options and -search are.
WriteReadRoundTrip ==
    (impl = "flag" /\ pc \in {"log", "sleep", "panic"} /\ writeRes = "ok") =>
        LET back == readNameserversFromResolvConf(file, FALSE)
        IN  /\ ~back.err
            /\ back.nameservers = FlagSelection

\* the document the writer of the running program is about to write
NewDocument ==
    (IF impl = "flag"
       THEN NameserverLines(sortedNameservers.list, maxNameservers)
       ELSE StructNameserverLines(bestNameservers)) \o OptionLines

\* C12: the writer never leaves the target partially written: after a write
\* that failed at any step the file holds either the complete previous
\* document or the complete new one.
WriteIsAtomic ==
    [][(pc = "write" /\ pc' = "log" /\ writeRes' # "ok")
          => (file' = file \/ file' = NewDocument)]_vars

\* the selection handed to the writer
Selected == IF impl = "flag" THEN FlagSelection ELSE bestNameservers

\* C13: after a successful write the file is exactly one nameserver line per
\* selected candidate, in selection order, then an options line if and only
\* if -options is not empty, then a search line if and only if -search is
\* not empty; no line of the previous content is left.
WrittenDocumentExact ==
    (pc \in {"log", "sleep", "panic"} /\ writeRes = "ok") =>
        LET n == Len(Selected)
            o == IF options # "" THEN 1 ELSE 0
            c == IF search # "" THEN 1 ELSE 0
        IN  /\ Len(file) = n + o + c
            /\ \A i \in 1..n : file[i] = Line("nameserver", Selected[i])
            /\ options # "" => file[n + 1] = Line("options", options)
            /\ search # "" => file[n + o + 1] = Line("search", search)

WrittenDocumentExactWitness ==
    /\ pc = "log"
    /\ writeRes = "ok"
    /\ options = ""
    /\ search # ""
    /\ Len(Selected) = 2
    /\ Len(file) = 3


\* the process is gone: os.Exit(0) was called, or the loop panicked
Exited == pc \in {"exit", "panic"}

\* C14: a termination signal delivered in any state of the loop leads to the
\* exit of the process, the cycle not having to complete: no state of the
\* loop disables the handler, and with the handler goroutine scheduled
\* fairly the process exits.
SignalLeadsToExit == (signalChan = 1) ~> Exited

SignalLeadsToExitWitness ==
    /\ signalChan = 1
    /\ pc = "recv"
    /\ InFlight # {}
    /\ resultChan # <<>>

\* the selection the running program makes of a results slice: rank it, keep
\* what the ranking keeps, cut to maxNameservers
Selection(rs) ==
    IF impl = "flag"
      THEN NameserverLines(sortNameservers(rs).list, maxNameservers)
      ELSE StructNameserverLines(
               GetMaxNameservers(SortNameServers(rs).list, maxNameservers))

Reported == {a \in Addrs : proc[a] = "done"}

\* C16: after the join the result collection holds exactly one result for
\* every candidate probed in the cycle: none lost, none twice.
OneResultPerCandidate ==
    pc \in {"rank", "write", "log", "sleep", "panic"} =>
        /\ Len(results) = Cardinality(Reported)
        /\ \A a \in Reported :
             Cardinality({i \in 1..Len(results) :
                             results[i].nameserver = a}) = 1

\* C17: cycles never overlap: a collecting step starts only from the sleep
\* that follows the previous cycle's write (returned with success or failure),
\* and no probe of the previous cycle is then in flight.
CyclesNeverOverlap ==
    [][pc' = "collect" =>
          /\ pc = "sleep"
          /\ writeRes # "none"
          /\ InFlight = {}]_vars

\* C18: the fan-in of the flag program terminates: the channel holds as many
\* results as there are candidates, so no probe blocks on its send; every
\* candidate is running, in the channel or received; while results are
\* outstanding a send or a receive can be taken; and when sortNameservers
\* returns it has received one result per candidate and no probe is left.
FanInTerminates ==
    impl = "flag" =>
        /\ Len(resultChan) <= chanCap
        /\ pc = "recv" =>
             LET running == {a \in Addrs : proc[a] = "running"}
             IN  /\ running # {} => Len(resultChan) < chanCap
                 /\ Len(results) + Len(resultChan) + Cardinality(running)
                       = toReceive
                 /\ Len(results) < toReceive
                 /\ running # {} \/ resultChan # <<>>
        /\ pc \in {"rank", "write", "log", "sleep", "panic"} =>
             /\ Len(results) = toReceive
             /\ Cardinality(Reported) = toReceive
             /\ resultChan = <<>>
             /\ InFlight = {}

FanInTerminatesWitness ==
    /\ impl = "flag"
    /\ pc = "recv"
    /\ toReceive = 3
    /\ Len(resultChan) = 3
    /\ results = <<>>

\* C19: the flag program feeds its selection back through the file: a
\* successful write stores the selection as the file's nameserver lines, no
\* other step changes the file, and the next collecting step that reads the
\* file takes every address stored there as a candidate; what it takes
\* besides comes from the remote source or the static fallback.
FeedbackThroughFile ==
    [][impl = "flag" =>
          /\ (pc = "write" /\ pc' = "log" /\ writeRes' = "ok") =>
                WrittenNameservers(file') = FlagSelection
          /\ file' # file => pc = "write"
          /\ (pc = "collect" /\ pc' = "spawn" /\ ~src'.openErr) =>
                /\ Range(WrittenNameservers(file)) \subseteq Range(nameservers')
                /\ Range(nameservers') \subseteq
                      Range(WrittenNameservers(file))
                      \cup Range(src'.resp.nameservers)
                      \cup Range(defaultNameserver)]_vars

\* C20: in the flag program a fetch that fails leaves the stored endpoint URL
\* as it was and contributes no candidate; the stored URL changes in no step
\* other than a collecting step that decoded a response.
FailedFetchKeepsEndpoint ==
    [][impl = "flag" =>
          /\ endpointURL' # endpointURL =>
                (pc = "collect" /\ src'.valid /\ src'.resp.kind = "ok")
          /\ (pc = "collect" /\ pc' = "spawn" /\ src'.resp.kind # "ok") =>
                /\ endpointURL' = endpointURL
                /\ src'.url = endpointURL
                /\ Range(nameservers') =
                      (IF src'.openErr THEN {} ELSE Range(src'.local))
                      \cup Range(defaultNameserver)]_vars

FailedFetchKeepsEndpointWitness ==
    /\ impl = "flag"
    /\ src.valid
    /\ src.resp.kind # "ok"
    /\ src.url = "http://host2/ns"
    /\ endpointURL = "http://host2/ns"
    /\ ~src.openErr
    /\ src.local # <<>>

====
